---- MODULE Spec2Model ----
(***************************************************************************)
(* Model of src/bot.py.                                                    *)
(*   Spec         one transfer request handled by handle_youtube_url       *)
(*                (kind = "remote") or handle_file (kind = "direct"): its  *)
(*                ProgressTracker, the yt-dlp worker thread, the           *)
(*                _monitor_progress task and the chunked Drive upload.     *)
(*   SpecFormat   the yt-dlp selector built by _get_format_string.         *)
(*   SpecCommand  parse_quality_command and the head of handle_youtube_url.*)
(*   SpecStage    the file each handler stages from its directory.         *)
(*   SpecTracker  progress_lock between the worker thread and the monitor. *)
(*   SpecLoop     the event loop thread with a second request arriving.    *)
(***************************************************************************)
EXTENDS Integers, Sequences, FiniteSets, TLC

VARIABLES
    kind,              \* "remote" (handle_youtube_url) | "direct" (handle_file)
    pc,                \* position of the handler coroutine
    exc,               \* the exception in flight / caught (`e`), "None" if none
    now,               \* time.time()
    tempExists,        \* the TemporaryDirectory exists on disk
    destroyCount,      \* number of times the directory was removed
    createCount,       \* number of times a directory was created
    last_update,       \* ProgressTracker.last_update
    total_size,        \* ProgressTracker.total_size (None or a size)
    download_progress, \* ProgressTracker.download_progress
    worker,            \* the asyncio.to_thread(ydl.download) thread
    mon,               \* position of the _monitor_progress task
    mon_wake,          \* time at which asyncio.sleep(1) of the monitor ends
    mon_msg,           \* text the monitor is sending (awaiting edit_text)
    up_msg,            \* text update_upload is sending (awaiting edit_text)
    file_size,         \* os.path.getsize of the staged file
    response,          \* last `response` returned by request.next_chunk()
    drive_link,        \* value returned by upload_to_drive_with_progress
    sink,              \* kind of the last text delivered to progress_msg
    outcome,           \* "none" | "link" | "failure"
    escaped,           \* an exception left the handler
    lastEmitAt,        \* history: time of the last rendered emission
    uploadSeen,        \* history: update_upload has been called
    nEmit,             \* history: progress snapshots rendered
    suppressed,        \* history: an attempt with data was held back by the cooldown
    uploaded,          \* uploaded_bytes of the last non-final chunk
    nRecord,           \* history: calls of progress_hook
    nChunk,            \* history: calls of request.next_chunk()
    hint,              \* format selection: the quality hint
    formats,           \* format selection: formats the extractor offers
    selected,          \* format selection: what the selector picked
    text,              \* command parsing: message.text.strip(), as its words
    cmd_quality,       \* command parsing: `quality` of handle_youtube_url
    cmd_url,           \* command parsing: `url` of handle_youtube_url, as its words
    dispatch,          \* command parsing: "none" | "received" | "invalid" | "accepted"
    listing,           \* staging: os.listdir of the directory, as file names
    dir_sizes,         \* staging: os.path.getsize of each file of the directory
    isdir,             \* staging: download_media returned a directory
    local_path,        \* staging: the file that was staged (None if none)
    lock,              \* ProgressTracker.progress_lock: "free" or its holder
    w_pc,              \* position of the worker thread inside progress_hook
    hook,              \* the dict `d` of the progress_hook call in progress
    cur_time,          \* `current_time` of check_and_update_download (0 outside it)
    committed,         \* history: download_progress after the last whole record call
    mon_read,          \* the values check_and_update_download read under the lock
    loop,              \* the event loop thread: "free" | "blocked" in a call
    pc2,               \* a second request: "none" | "arrived" | "dispatched" | "downloading"
    mon2               \* the _monitor_progress task of the second request

vars == <<kind, pc, exc, now, tempExists, destroyCount, createCount, last_update,
          total_size, download_progress, worker, mon, mon_wake, mon_msg, up_msg,
          file_size, response, drive_link, sink, outcome, escaped, lastEmitAt,
          uploadSeen, nEmit, suppressed, uploaded, nRecord, nChunk, hint, formats,
          selected, text, cmd_quality, cmd_url, dispatch, listing, dir_sizes,
          isdir, local_path, lock, w_pc, hook, cur_time, committed, mon_read,
          loop, pc2, mon2>>

pipeVars == <<kind, pc, exc, now, tempExists, destroyCount, createCount,
              last_update, total_size, download_progress, worker, mon, mon_wake,
              mon_msg, up_msg, file_size, response, drive_link, sink, outcome,
              escaped, lastEmitAt, uploadSeen, nEmit, suppressed, uploaded,
              nRecord, nChunk>>

fmtVars == <<hint, formats, selected>>

cmdVars == <<text, cmd_quality, cmd_url, dispatch>>

\* what the handlers of one accepted request leave alone
stageVars == <<listing, dir_sizes, isdir, local_path>>

lockVars == <<lock, w_pc, hook, cur_time, committed, mon_read>>

loopVars == <<loop, pc2, mon2>>

auxVars == <<cmdVars, stageVars, lockVars, loopVars>>

(***************************************************************************)
(* Bounds of the model.                                                    *)
(***************************************************************************)
StartTime == 3      \* time.time() at the request; the epoch clock is >= 3
Horizon == 3        \* seconds of the request the model follows
MaxBytes == 2       \* largest byte count / file size
MaxHooks == 2       \* progress_hook calls per download
MaxChunks == 2      \* non-final next_chunk() results per upload

MaxTime == StartTime + Horizon

(***************************************************************************)
(* Python values.                                                          *)
(***************************************************************************)
None == {}
Some(v) == {v}
Val(x) == CHOOSE v \in x : TRUE
\* truth value of an optional number: None and 0 are falsy
Truthy(x) == x # None /\ x # Some(0)
\* truth value of an optional text: None and '' are falsy
TruthyText(x) == x # None /\ x # Some("")
\* a or b
PyOr(a, b) == IF Truthy(a) THEN a ELSE b

NoMsg == [type |-> "none", bytes |-> 0, total |-> 0]

\* the locals downloaded, total, speed, quality outside check_and_update_download
NothingRead == [downloaded |-> 0, total |-> 0, speed |-> None, quality |-> None]

(***************************************************************************)
(* ProgressTracker.                                                        *)
(***************************************************************************)
DownloadCooldown == 3
UploadCooldown == 2

NoEmit(lu) == [emit |-> FALSE, last_update |-> lu, msg |-> NoMsg]

\* the four assignments of update_download_sync, in order
set_downloaded(dp, downloaded_bytes) == [dp EXCEPT !.downloaded = downloaded_bytes]
set_total(dp, total_bytes) ==
    [dp EXCEPT !.total = IF Truthy(total_bytes) THEN Val(total_bytes) ELSE @]
set_speed(dp, speed) == [dp EXCEPT !.speed = IF Truthy(speed) THEN speed ELSE @]
set_quality(dp, quality) ==
    [dp EXCEPT !.quality = IF TruthyText(quality) THEN quality ELSE @]

\* update_download_sync: the new download_progress dict
update_download_sync(dp, downloaded_bytes, total_bytes, speed, quality) ==
    set_quality(set_speed(set_total(set_downloaded(dp, downloaded_bytes),
                                    total_bytes), speed), quality)

\* a faulty check that renders without recording the time of the emission
check_without_stamp(t, lu, dp) ==
    IF t - lu < DownloadCooldown THEN NoEmit(lu)
    ELSE IF dp.downloaded = 0 THEN NoEmit(lu)
    ELSE [emit |-> TRUE, last_update |-> lu,
          msg |-> [type |-> "download", bytes |-> dp.downloaded, total |-> dp.total,
                   speed |-> dp.speed, quality |-> dp.quality]]

\* check_and_update_download up to its await: whether a snapshot is rendered,
\* the new last_update and the rendered snapshot
check_and_update_download(t, lu, dp) ==
    IF t - lu < DownloadCooldown THEN NoEmit(lu)
    ELSE IF dp.downloaded = 0 THEN NoEmit(lu)
    ELSE [emit |-> TRUE, last_update |-> t,
          msg |-> [type |-> "download", bytes |-> dp.downloaded, total |-> dp.total,
                   speed |-> dp.speed, quality |-> dp.quality]]

\* update_upload up to its await
update_upload(t, lu, ts, uploaded_bytes) ==
    IF ~Truthy(ts) THEN NoEmit(lu)
    ELSE IF t - lu < UploadCooldown THEN NoEmit(lu)
    ELSE [emit |-> TRUE, last_update |-> t,
          msg |-> [type |-> "upload", bytes |-> uploaded_bytes, total |-> Val(ts)]]

\* bar_length = 10
bar_length == 10

\* the largest number of tenths the table below covers (done = 100 * total)
MaxTenths == 1000

\* the whole numbers n = bar_length * done / total, up to MaxTenths, for which
\* the double-precision chain (done / total) * 100, bar_length * ... / 100
\* ends just below n, so that int() gives n - 1: 2.3 * 100 is
\* 229.99999999999997, and 10 * 229.99999999999997 / 100 is 22.999999999999996
RoundedDownTenths ==
    {n \in {23} \cup {41 + 5 * k : k \in 0..2} \cup {82 + 5 * k : k \in 0..4}
                 \cup {164 + 5 * k : k \in 0..8} \cup {323 + 5 * k : k \in 0..17}
                 \cup {641 + 5 * k : k \in 0..35} : n <= MaxTenths}

\* filled_length = int(bar_length * progress_percent / 100), where
\* progress_percent = (done / total) * 100, total > 0 and
\* bar_length * done <= MaxTenths * total: the floor of the quotient, one
\* less where the floating-point product falls short of a whole quotient
filled_length(done, total) ==
    LET tenths == (bar_length * done) \div total
    IN IF (bar_length * done) % total = 0 /\ tenths \in RoundedDownTenths
       THEN tenths - 1
       ELSE tenths

\* len(c * n) for a one-character string c: a count below 1 gives ""
repeat_len(n) == IF n > 0 THEN n ELSE 0

\* bar = "\u2588" * filled_length + "\u2591" * (bar_length - filled_length),
\* as the numbers of filled and of empty segments
progress_bar(done, total) ==
    [filled |-> repeat_len(filled_length(done, total)),
     empty |-> repeat_len(bar_length - filled_length(done, total))]

\* the snapshots whose text has a bar: every upload snapshot, and a download
\* snapshot under `if total and total > 0`
shows_bar(msg) ==
    \/ msg.type = "upload"
    \/ msg.type = "download" /\ msg.total > 0

\* the bar in the text of a snapshot that shows one
bar_of(msg) == progress_bar(msg.bytes, msg.total)

\* history: an attempt that had data and rendered nothing because the last
\* emission was less than `window` ago
HeldBack(r, nonzero, prev, t, window) ==
    ~r.emit /\ nonzero /\ prev # None /\ t - Val(prev) < window

(***************************************************************************)
(* YouTubeDownloader.progress_hook and the filename quality hint.          *)
(***************************************************************************)
Resolutions == <<"2160p", "1440p", "1080p", "720p", "480p", "360p", "240p">>

\* a filename is a sequence of tokens; `res in filename` is token membership
extract_quality_from_filename(filename) ==
    IF filename = <<>> THEN None
    ELSE LET hits == {i \in 1..Len(Resolutions) :
                        \E j \in 1..Len(filename) : filename[j] = Resolutions[i]}
         IN IF hits = {} THEN None
            ELSE Some(Resolutions[CHOOSE i \in hits : \A k \in hits : i <= k])

\* d.get(key, default)
Get(v, default) == IF v = None THEN default ELSE Val(v)

\* the dicts yt-dlp hands to the hook; a key that is absent is None
HookStatuses == {"downloading", "finished"}
HookBytes == {None} \cup {Some(n) : n \in 0..MaxBytes}
HookTotals == {None, Some(MaxBytes)}
HookSpeeds == {None}
HookFilenames == {<<>>}
HookDicts ==
    [status : HookStatuses, downloaded_bytes : HookBytes,
     total_bytes : HookTotals, total_bytes_estimate : HookTotals,
     speed : HookSpeeds, filename : HookFilenames]

\* the arguments progress_hook passes to update_download_sync
hook_args(d) ==
    [downloaded |-> Get(d.downloaded_bytes, 0),
     total |-> PyOr(d.total_bytes, d.total_bytes_estimate),
     speed |-> d.speed,
     quality |-> extract_quality_from_filename(d.filename)]

progress_hook(dp, d) ==
    IF d.status = "downloading"
    THEN LET a == hook_args(d)
         IN update_download_sync(dp, a.downloaded, a.total, a.speed, a.quality)
    ELSE dp

(***************************************************************************)
(* The state after a message reached its handler.                          *)
(***************************************************************************)
FmtIdle == hint = "best" /\ formats = {} /\ selected = [alt |-> 0, picked |-> {}]
CmdIdle == text = <<>> /\ cmd_quality = None /\ cmd_url = <<>> /\ dispatch = "none"
NoHook ==
    [status |-> "none", downloaded_bytes |-> None, total_bytes |-> None,
     total_bytes_estimate |-> None, speed |-> None, filename |-> <<>>]
LockIdle ==
    /\ lock = "free" /\ w_pc = "idle" /\ hook = NoHook /\ cur_time = 0
    /\ committed = NothingRead
    /\ mon_read = NothingRead
StageIdle == listing = <<>> /\ dir_sizes = <<>> /\ isdir = FALSE /\ local_path = None
LoopIdle == loop = "free" /\ pc2 = "none" /\ mon2 = "none"
AuxIdle == CmdIdle /\ StageIdle /\ LockIdle /\ LoopIdle

Init ==
    /\ kind \in {"remote", "direct"}
    /\ pc = "reply"
    /\ exc = "None"
    /\ now = StartTime
    /\ tempExists = FALSE
    /\ destroyCount = 0
    /\ createCount = 0
    /\ last_update = 0
    /\ total_size = None
    /\ download_progress =
         [downloaded |-> 0, total |-> 0, speed |-> None, quality |-> None]
    /\ worker = "idle"
    /\ mon = "none"
    /\ mon_wake = 0
    /\ mon_msg = NoMsg
    /\ up_msg = NoMsg
    /\ file_size = 0
    /\ response = None
    /\ drive_link = None
    /\ sink = "none"
    /\ outcome = "none"
    /\ escaped = FALSE
    /\ lastEmitAt = None
    /\ uploadSeen = FALSE
    /\ nEmit = 0
    /\ suppressed = FALSE
    /\ uploaded = 0
    /\ nRecord = 0
    /\ nChunk = 0
    /\ FmtIdle
    /\ AuxIdle

\* a send to the chat platform either arrives or raises
SendOutcomes == {"sent", "raised"}

trackerVars == <<last_update, total_size, download_progress, lastEmitAt,
                 uploadSeen, nEmit, suppressed, nRecord>>
monVars == <<mon, mon_wake, mon_msg>>
dirVars == <<tempExists, destroyCount, createCount>>
upVars == <<up_msg, file_size, response, drive_link, uploaded, nChunk>>

\* time passes while the request is being handled
Tick ==
    /\ pc # "done"
    /\ now < MaxTime
    /\ now' = now + 1
    /\ UNCHANGED <<kind, pc, exc, dirVars, trackerVars, worker, monVars, upVars,
                   sink, outcome, escaped, fmtVars, auxVars>>

(***************************************************************************)
(* handle_youtube_url / handle_file: the handler coroutine.                *)
(***************************************************************************)
\* progress_msg = await message.reply_text(...), before the try
Reply ==
    /\ pc = "reply"
    /\ \E o \in SendOutcomes :
         IF o = "sent"
         THEN /\ sink' = (IF kind = "remote" THEN "analyzing" ELSE "downloading_file")
              /\ pc' = "mktemp"
              /\ UNCHANGED <<exc, escaped>>
         ELSE /\ exc' = "SendError"
              /\ escaped' = TRUE
              /\ pc' = "done"
              /\ UNCHANGED sink
    /\ UNCHANGED <<kind, now, dirVars, trackerVars, worker, monVars, upVars,
                   outcome, fmtVars, auxVars>>

\* with tempfile.TemporaryDirectory() as temp_dir: entering the block
MkTemp ==
    /\ pc = "mktemp"
    /\ \E ok \in BOOLEAN :
         IF ok
         THEN /\ tempExists' = TRUE
              /\ createCount' = createCount + 1
              /\ pc' = IF kind = "remote" THEN "get_info" ELSE "download_media"
              /\ UNCHANGED exc
         ELSE /\ exc' = "StagingError"
              /\ pc' = "except"
              /\ UNCHANGED <<tempExists, createCount>>
    /\ UNCHANGED <<kind, now, destroyCount, trackerVars, worker, monVars, upVars,
                   sink, outcome, escaped, fmtVars, auxVars>>

\* a faulty exit that keeps the directory when an exception is in flight
removes_only_on_success(e) == e = "None"

\* TemporaryDirectory.__exit__ removes the directory whatever exception `e`
\* is in flight
with_exit_removes(e) == TRUE

\* leaving the with block, normally or with an exception in flight
WithExit ==
    /\ pc = "with_exit"
    /\ tempExists' = IF with_exit_removes(exc) THEN FALSE ELSE tempExists
    /\ destroyCount' = IF with_exit_removes(exc) THEN destroyCount + 1 ELSE destroyCount
    /\ pc' = IF exc = "None" THEN "edit_success" ELSE "except"
    /\ UNCHANGED <<kind, exc, now, createCount, trackerVars, worker, monVars,
                   upVars, sink, outcome, escaped, fmtVars, auxVars>>

\* await progress_msg.edit_text(success text), inside the try
EditSuccess ==
    /\ pc = "edit_success"
    /\ \E o \in SendOutcomes :
         IF o = "sent"
         THEN /\ sink' = "success"
              /\ outcome' = "link"
              /\ pc' = "done"
              /\ UNCHANGED exc
         ELSE /\ exc' = "SendError"
              /\ pc' = "except"
              /\ UNCHANGED <<sink, outcome>>
    /\ UNCHANGED <<kind, now, dirVars, trackerVars, worker, monVars, upVars,
                   escaped, fmtVars, auxVars>>

\* except Exception as e: await progress_msg.edit_text(error_msg)
Except ==
    /\ pc = "except"
    /\ outcome' = "failure"
    /\ pc' = "done"
    /\ \E o \in SendOutcomes :
         IF o = "sent"
         THEN /\ sink' = "error"
              /\ UNCHANGED escaped
         ELSE /\ escaped' = TRUE
              /\ UNCHANGED sink
    /\ UNCHANGED <<kind, exc, now, dirVars, trackerVars, worker, monVars, upVars,
                   fmtVars, auxVars>>

(***************************************************************************)
(* handle_youtube_url: catalog, download_video, the worker thread and the  *)
(* _monitor_progress task.                                                 *)
(***************************************************************************)
\* video_info = await downloader.get_video_info(url)
GetVideoInfo ==
    /\ pc = "get_info"
    /\ \E ok \in BOOLEAN :
         IF ok THEN pc' = "edit_found" /\ UNCHANGED exc
         ELSE exc' = "ExtractError" /\ pc' = "with_exit"
    /\ UNCHANGED <<kind, now, dirVars, trackerVars, worker, monVars, upVars, sink,
                   outcome, escaped, fmtVars, auxVars>>

\* await progress_msg.edit_text("Video Found! ...")
EditFound ==
    /\ pc = "edit_found"
    /\ \E o \in SendOutcomes :
         IF o = "sent"
         THEN sink' = "video_found" /\ pc' = "dl_start" /\ UNCHANGED exc
         ELSE exc' = "SendError" /\ pc' = "with_exit" /\ UNCHANGED sink
    /\ UNCHANGED <<kind, now, dirVars, trackerVars, worker, monVars, upVars,
                   outcome, escaped, fmtVars, auxVars>>

\* the monitor task is between the time read of check_and_update_download
\* (line 178) and its await (line 221): it has the loop thread, also while it
\* waits for the lock, and no other coroutine takes a step
MonitorRendering == mon \in {"acquire", "read", "render"}

\* a faulty lock that lets a thread in while the other holds it
lock_not_awaited(l) == TRUE

\* with self.progress_lock: a thread enters when no thread holds the lock
lock_is_free(l) == l = "free"

\* download_video: progress_task = asyncio.create_task(self._monitor_progress())
DlStart ==
    /\ pc = "dl_start"
    /\ mon' = "check"
    /\ pc' = "dl_extract"
    /\ UNCHANGED <<kind, exc, now, dirVars, trackerVars, worker, mon_wake, mon_msg,
                   upVars, sink, outcome, escaped, fmtVars, auxVars>>

\* info = await asyncio.to_thread(ydl.extract_info, url, download=False);
\* on success the download thread is started
DlExtract ==
    /\ pc = "dl_extract"
    /\ ~MonitorRendering
    /\ \E ok \in BOOLEAN :
         IF ok
         THEN /\ pc' = "dl_download"
              /\ worker' = "running"
                        /\ UNCHANGED exc
         ELSE /\ exc' = "ExtractError"
              /\ pc' = "dl_finally"
              /\ UNCHANGED worker
    /\ UNCHANGED <<kind, now, dirVars, trackerVars, monVars, upVars, sink, outcome,
                   escaped, fmtVars, auxVars>>

\* the worker thread: yt-dlp calls progress_hook; only a dict whose status is
\* 'downloading' reaches update_download_sync and waits for progress_lock
WorkerHook ==
    /\ worker = "running"
    /\ nRecord < MaxHooks
    /\ nRecord' = nRecord + 1
    /\ \E d \in HookDicts :
         /\ d.status = "downloading" => lock_is_free(lock)
         /\ download_progress' = progress_hook(download_progress, d)
    /\ UNCHANGED <<kind, pc, exc, now, dirVars, last_update, total_size,
                   lastEmitAt, uploadSeen, nEmit, suppressed, worker, monVars,
                   upVars, sink, outcome, escaped, fmtVars, auxVars>>

\* the worker thread: ydl.download returns or raises
WorkerFinish ==
    /\ worker = "running"
    /\ \E w \in {"returned", "raised"} : worker' = w
    /\ UNCHANGED <<kind, pc, exc, now, dirVars, trackerVars, monVars, upVars, sink,
                   outcome, escaped, fmtVars, auxVars>>

\* await asyncio.to_thread(ydl.download, [url]) completes
DlJoin ==
    /\ pc = "dl_download"
    /\ ~MonitorRendering
    /\ worker \in {"returned", "raised"}
    /\ IF worker = "returned" THEN pc' = "dl_find" /\ UNCHANGED exc
       ELSE exc' = "DownloadError" /\ pc' = "dl_finally"
    /\ UNCHANGED <<kind, now, dirVars, trackerVars, worker, monVars, upVars, sink,
                   outcome, escaped, fmtVars, auxVars>>

\* for file in os.listdir(output_dir): ... return / raise RuntimeError
DlFind ==
    /\ pc = "dl_find"
    /\ ~MonitorRendering
    /\ \/ \E sz \in 0..MaxBytes :
            file_size' = sz /\ pc' = "dl_finally" /\ UNCHANGED exc
       \/ exc' = "NotFoundError" /\ pc' = "dl_finally" /\ UNCHANGED file_size
    /\ UNCHANGED <<kind, now, dirVars, trackerVars, worker, monVars, up_msg,
                   response, drive_link, uploaded, nChunk, sink, outcome, escaped,
                   fmtVars, auxVars>>

\* a faulty download_video that has no finally clause
never_cancels(e) == FALSE

\* a faulty epilogue that runs only when the try block returned
cancels_only_on_return(e) == e = "None"

\* the finally clause runs whatever exception `e` is in flight
cancels_on(e) == TRUE

\* progress_task.cancel(): the task is marked, and CancelledError is thrown
\* into it when the loop runs it next
cancel(m) == "cancelled"

\* a faulty finally clause that returns and so drops the exception in flight
returns_despite_error(e) == "edit_prepare"

\* where the handler is after download_video: it returned the path, or the
\* exception `e` in flight leaves the with block
after_download_video(e) == IF e = "None" THEN "edit_prepare" ELSE "with_exit"

\* finally: progress_task.cancel(), up to `await progress_task`
DlFinally ==
    /\ pc = "dl_finally"
    /\ ~MonitorRendering
    /\ IF cancels_on(exc)
       THEN mon' = cancel(mon) /\ pc' = "dl_await"
       ELSE UNCHANGED mon /\ pc' = after_download_video(exc)
    /\ UNCHANGED <<kind, exc, now, dirVars, trackerVars, worker, mon_wake, mon_msg,
                   upVars, sink, outcome, escaped, fmtVars, auxVars>>

\* the cancelled task runs: CancelledError is raised at its await (the sleep,
\* or an edit_text whose text was delivered or was not) and
\* _monitor_progress ends in `except asyncio.CancelledError: pass`
MonitorCancelled ==
    /\ mon = "cancelled"
    /\ sink' \in (IF mon_msg # NoMsg THEN {sink, mon_msg.type} ELSE {sink})
    /\ mon_msg' = NoMsg
    /\ mon_wake' = 0
    /\ mon' = "done"
    /\ UNCHANGED <<kind, pc, exc, now, dirVars, trackerVars, worker, upVars,
                   outcome, escaped, fmtVars, auxVars>>

\* `await progress_task` ends with the task; download_video returns or the
\* exception in flight goes on
DlAwait ==
    /\ pc = "dl_await"
    /\ mon = "done"
    /\ pc' = after_download_video(exc)
    /\ UNCHANGED <<kind, exc, now, dirVars, trackerVars, worker, monVars, upVars,
                   sink, outcome, escaped, fmtVars, auxVars>>

\* _monitor_progress: await self.progress_tracker.check_and_update_download(),
\* lines 178-181: current_time = time.time() and the cooldown
MonitorCheck ==
    /\ mon = "check"
    /\ IF now - last_update < DownloadCooldown
       THEN /\ mon' = "sleep"
            /\ mon_wake' = now + 1
            /\ suppressed' = (suppressed \/ HeldBack(NoEmit(last_update),
                                                     download_progress.downloaded # 0,
                                                     lastEmitAt, now, DownloadCooldown))
            /\ UNCHANGED cur_time
       ELSE /\ mon' = "acquire"
            /\ cur_time' = now
            /\ UNCHANGED <<mon_wake, suppressed>>
    /\ UNCHANGED <<kind, pc, exc, now, dirVars, last_update, total_size,
                   download_progress, lastEmitAt, uploadSeen, nEmit, nRecord, worker,
                   mon_msg, upVars, sink, outcome, escaped, fmtVars, cmdVars,
                   stageVars, loopVars, lock, w_pc, hook, committed, mon_read>>

\* with self.progress_lock: (entering, on the event loop thread)
CheckAcquire ==
    /\ mon = "acquire"
    /\ lock_is_free(lock)
    /\ lock' = "monitor"
    /\ mon' = "read"
    /\ UNCHANGED <<kind, pc, exc, now, dirVars, trackerVars, worker, mon_wake,
                   mon_msg, upVars, sink, outcome, escaped, fmtVars, cmdVars,
                   stageVars, loopVars, w_pc, hook, cur_time, committed,
                   mon_read>>

\* a faulty check that keeps the lock while it renders and sends
held_through_send(l) == l

\* the lock when the with block of check_and_update_download is left
lock_after_read(l) == "free"

\* the four reads under the lock and the release (lines 184-187)
CheckRead ==
    /\ mon = "read"
    /\ lock' = lock_after_read(lock)
    /\ mon_read' = download_progress
    /\ mon' = "render"
    /\ UNCHANGED <<kind, pc, exc, now, dirVars, trackerVars, worker, mon_wake,
                   mon_msg, upVars, sink, outcome, escaped, fmtVars, cmdVars,
                   stageVars, loopVars, w_pc, hook, cur_time, committed>>

\* check_and_update_download, lines 189-218, after the lock was released: the
\* test of the bytes read, the stamp of last_update and the text
MonitorRender ==
    /\ mon = "render"
    /\ LET r == check_and_update_download(cur_time, last_update, mon_read)
       IN /\ last_update' = r.last_update
          /\ lastEmitAt' = IF r.emit THEN Some(cur_time) ELSE lastEmitAt
          /\ nEmit' = IF r.emit THEN nEmit + 1 ELSE nEmit
          /\ mon_msg' = r.msg
          /\ mon' = IF r.emit THEN "sending" ELSE "sleep"
          /\ mon_wake' = IF r.emit THEN mon_wake ELSE now + 1
    /\ cur_time' = 0
    /\ mon_read' = NothingRead
    /\ UNCHANGED <<kind, pc, exc, now, dirVars, total_size, download_progress,
                   uploadSeen, suppressed, nRecord, worker, upVars, sink, outcome,
                   escaped, fmtVars, cmdVars, stageVars, loopVars, lock, w_pc, hook,
                   committed>>

\* try: await self.progress_msg.edit_text(progress_text) except Exception: pass
MonitorSend ==
    /\ mon = "sending"
    /\ \E o \in SendOutcomes : sink' = IF o = "sent" THEN mon_msg.type ELSE sink
    /\ mon' = "sleep"
    /\ mon_wake' = now + 1
    /\ mon_msg' = NoMsg
    /\ UNCHANGED <<kind, pc, exc, now, dirVars, trackerVars, worker, upVars,
                   outcome, escaped, fmtVars, auxVars>>

\* await asyncio.sleep(1) ends
MonitorWake ==
    /\ mon = "sleep"
    /\ now >= mon_wake
    /\ mon' = "check"
    /\ UNCHANGED <<kind, pc, exc, now, dirVars, trackerVars, worker, mon_wake,
                   mon_msg, upVars, sink, outcome, escaped, fmtVars, auxVars>>

\* if not video_path or not os.path.exists(video_path): raise RuntimeError;
\* await progress_msg.edit_text("Preparing Google Drive upload...")
EditPrepare ==
    /\ pc = "edit_prepare"
    /\ \E exists \in BOOLEAN :
         IF ~exists
         THEN exc' = "PathCheckError" /\ pc' = "with_exit" /\ UNCHANGED sink
         ELSE \E o \in SendOutcomes :
                IF o = "sent"
                THEN sink' = "preparing" /\ pc' = "up_start" /\ UNCHANGED exc
                ELSE exc' = "SendError" /\ pc' = "with_exit" /\ UNCHANGED sink
    /\ UNCHANGED <<kind, now, dirVars, trackerVars, worker, monVars, upVars,
                   outcome, escaped, fmtVars, auxVars>>

(***************************************************************************)
(* handle_file: acquisition of a direct transfer.                          *)
(***************************************************************************)
\* local_path = await client.download_media(media, temp_dir), which hands
\* back a file or a directory, or raises; an empty directory raises
\* RuntimeError("Downloaded photo directory is empty") (lines 594-597);
\* otherwise file_size = os.path.getsize(local_path) of the file, or of the
\* largest file of the directory, and
\* progress_tracker = ProgressTracker(progress_msg, file_name, file_size)
DownloadMedia ==
    /\ pc = "download_media"
    /\ \/ \E sz \in 0..MaxBytes :
            /\ file_size' = sz
            /\ total_size' = Some(sz)
            /\ pc' = "up_start"
            /\ UNCHANGED exc
       \/ /\ exc' = "EmptyDirError"
          /\ pc' = "with_exit"
          /\ UNCHANGED <<file_size, total_size>>
       \/ /\ exc' = "DownloadError"
          /\ pc' = "with_exit"
          /\ UNCHANGED <<file_size, total_size>>
    /\ UNCHANGED <<kind, now, dirVars, last_update, download_progress, lastEmitAt,
                   uploadSeen, nEmit, suppressed, nRecord, worker, monVars, up_msg,
                   response, drive_link, uploaded, nChunk, sink, outcome, escaped,
                   fmtVars, auxVars>>

(***************************************************************************)
(* upload_to_drive_with_progress.                                          *)
(***************************************************************************)
\* what request.next_chunk() may return as the finalization response
Responses ==
    { [k \in {"id"} |-> "file1"],
      [k \in {"id", "webViewLink"} |-> IF k = "id" THEN "file1" ELSE ""],
      [k \in {"id", "webViewLink"} |->
          IF k = "id" THEN "file1" ELSE "https://drive.google.com/file1"] }

\* file_size = os.path.getsize(local_path); progress_tracker.total_size = file_size
UpStart ==
    /\ pc = "up_start"
    /\ total_size' = Some(file_size)
    /\ response' = None
    /\ pc' = "up_chunk"
    /\ UNCHANGED <<kind, exc, now, dirVars, last_update, download_progress,
                   lastEmitAt, uploadSeen, nEmit, suppressed, nRecord, worker,
                   monVars, up_msg, file_size, drive_link, uploaded, nChunk, sink,
                   outcome, escaped, fmtVars, auxVars>>

\* a faulty loop that calls next_chunk() again after it raised
retry_chunk == "up_chunk"

\* where the handler goes when request.next_chunk() raises: the except clause
\* of upload_to_drive_with_progress prints and re-raises
on_chunk_error == "with_exit"

\* status, response = request.next_chunk() raises
UpChunkRaise ==
    /\ pc = "up_chunk"
    /\ loop' = "free"
    /\ nChunk' = nChunk + 1
    /\ exc' = "ChunkError"
    /\ pc' = on_chunk_error
    /\ UNCHANGED <<kind, now, dirVars, trackerVars, worker, monVars, up_msg,
                   file_size, response, drive_link, uploaded, sink, outcome,
                   escaped, fmtVars, cmdVars, stageVars, lockVars,
                   pc2, mon2>>

\* next_chunk() returns (status, None): await progress_tracker.update_upload(...)
UpChunkProgress ==
    /\ pc = "up_chunk"
    /\ loop' = "free"
    /\ nChunk < MaxChunks
    /\ nChunk' = nChunk + 1
    /\ uploadSeen' = TRUE
    /\ \E uploaded_bytes \in 0..file_size :
         LET r == update_upload(now, last_update, total_size, uploaded_bytes)
         IN /\ last_update' = r.last_update
            /\ lastEmitAt' = IF r.emit THEN Some(now) ELSE lastEmitAt
            /\ nEmit' = IF r.emit THEN nEmit + 1 ELSE nEmit
            /\ suppressed' = (suppressed \/ HeldBack(r, uploaded_bytes # 0, lastEmitAt,
                                                     now, UploadCooldown))
            /\ uploaded' = uploaded_bytes
            /\ up_msg' = r.msg
            /\ pc' = IF r.emit THEN "up_sending" ELSE "up_chunk"
    /\ UNCHANGED <<kind, exc, now, dirVars, total_size, download_progress, nRecord,
                   worker, monVars, file_size, response, drive_link, sink, outcome,
                   escaped, fmtVars, cmdVars, stageVars, lockVars,
                   pc2, mon2>>

\* update_upload: try: await self.progress_msg.edit_text(...) except Exception: pass
UpSend ==
    /\ pc = "up_sending"
    /\ \E o \in SendOutcomes : sink' = IF o = "sent" THEN up_msg.type ELSE sink
    /\ up_msg' = NoMsg
    /\ pc' = "up_chunk"
    /\ UNCHANGED <<kind, exc, now, dirVars, trackerVars, worker, monVars,
                   file_size, response, drive_link, uploaded, nChunk, outcome,
                   escaped, fmtVars, auxVars>>

\* next_chunk() returns (None, response): the object is finalized
UpChunkFinal ==
    /\ pc = "up_chunk"
    /\ loop' = "free"
    /\ nChunk' = nChunk + 1
    /\ \E resp \in Responses : response' = Some(resp)
    /\ pc' = "up_return"
    /\ UNCHANGED <<kind, exc, now, dirVars, trackerVars, worker, monVars, up_msg,
                   file_size, drive_link, uploaded, sink, outcome, escaped,
                   fmtVars, cmdVars, stageVars, lockVars,
                   pc2, mon2>>

\* a faulty return that hands back the id of the object
returns_file_id(resp) == Some(resp["id"])

\* return response["webViewLink"]: the link, or "KeyError" when there is no key
web_view_link(resp) ==
    IF "webViewLink" \in DOMAIN resp THEN Some(resp["webViewLink"]) ELSE None

\* a faulty handler that sends the success text inside the with block
reports_inside_with == "edit_success"

\* the upload call is the last statement of the with block: the block is left
\* when it returns or raises
after_upload == "with_exit"

UpReturn ==
    /\ pc = "up_return"
    /\ LET link == web_view_link(Val(response))
       IN IF link # None
          THEN drive_link' = link /\ UNCHANGED exc
          ELSE exc' = "KeyError" /\ UNCHANGED drive_link
    /\ pc' = after_upload
    /\ UNCHANGED <<kind, now, dirVars, trackerVars, worker, monVars, up_msg,
                   file_size, response, uploaded, nChunk, sink, outcome, escaped,
                   fmtVars, auxVars>>

(***************************************************************************)
(* One request.                                                            *)
(***************************************************************************)
Next ==
    \/ Tick
    \/ Reply
    \/ MkTemp
    \/ GetVideoInfo
    \/ EditFound
    \/ DlStart
    \/ DlExtract
    \/ WorkerHook
    \/ WorkerFinish
    \/ DlJoin
    \/ DlFind
    \/ DlFinally
    \/ MonitorCancelled
    \/ DlAwait
    \/ MonitorCheck
    \/ CheckAcquire
    \/ CheckRead
    \/ MonitorRender
    \/ MonitorSend
    \/ MonitorWake
    \/ EditPrepare
    \/ DownloadMedia
    \/ UpStart
    \/ UpChunkRaise
    \/ UpChunkProgress
    \/ UpSend
    \/ UpChunkFinal
    \/ UpReturn
    \/ WithExit
    \/ EditSuccess
    \/ Except

Spec == Init /\ [][Next]_vars

(***************************************************************************)
(* YouTubeDownloader._get_format_string and the formats its selector       *)
(* picks.  A selector is read as yt-dlp reads it: alternatives separated   *)
(* by "/", tried in order; "a+b" merges two picks and fails when either is *)
(* missing; "[height<=N]" keeps the formats that have a height of at most  *)
(* N; bestvideo is the best video-only format, bestaudio the best          *)
(* audio-only format, best the best format with both (or, when the         *)
(* extractor offers only video-only or only audio-only formats, the best   *)
(* of those).                                                              *)
(***************************************************************************)
format_options ==
    [best |-> "bestvideo[height<=1080]+bestaudio/best",
     h1080p |-> "bestvideo[height<=1080]+bestaudio/best[height<=1080]/best",
     h720p |-> "bestvideo[height<=720]+bestaudio/best[height<=720]/best",
     h480p |-> "bestvideo[height<=480]+bestaudio/best[height<=480]/best",
     h360p |-> "bestvideo[height<=360]+bestaudio/best[height<=360]/best",
     audio |-> "bestaudio/best"]

\* a faulty table that resolves every hint to the selector of "best"
get_format_string_uncapped(quality) ==
    IF quality = "audio" THEN format_options.audio ELSE format_options.best

\* format_options.get(quality, format_options["best"])
get_format_string(quality) ==
    CASE quality = "best" -> format_options.best
      [] quality = "1080p" -> format_options.h1080p
      [] quality = "720p" -> format_options.h720p
      [] quality = "480p" -> format_options.h480p
      [] quality = "360p" -> format_options.h360p
      [] quality = "audio" -> format_options.audio
      [] OTHER -> format_options.best

Part(what, maxh) == [what |-> what, maxh |-> maxh]
CappedSelector(h) ==
    << <<Part("bestvideo", Some(h)), Part("bestaudio", None)>>,
       <<Part("best", Some(h))>>,
       <<Part("best", None)>> >>

\* the selector a format string denotes: alternatives, each a list of parts
ParseSelector(str) ==
    CASE str = "bestvideo[height<=1080]+bestaudio/best" ->
           << <<Part("bestvideo", Some(1080)), Part("bestaudio", None)>>,
              <<Part("best", None)>> >>
      [] str = "bestvideo[height<=1080]+bestaudio/best[height<=1080]/best" ->
           CappedSelector(1080)
      [] str = "bestvideo[height<=720]+bestaudio/best[height<=720]/best" ->
           CappedSelector(720)
      [] str = "bestvideo[height<=480]+bestaudio/best[height<=480]/best" ->
           CappedSelector(480)
      [] str = "bestvideo[height<=360]+bestaudio/best[height<=360]/best" ->
           CappedSelector(360)
      [] str = "bestaudio/best" ->
           << <<Part("bestaudio", None)>>, <<Part("best", None)>> >>

\* the formats an extractor may offer: video-only, combined and audio-only
VideoHeights == {360, 720, 1080, 2160}
AudioRates == {64, 128}
Fmt(v, a, h, abr) == [vcodec |-> v, acodec |-> a, height |-> h, abr |-> abr]
FormatUniverse ==
    {Fmt(TRUE, FALSE, Some(h), None) : h \in VideoHeights}
      \cup {Fmt(TRUE, TRUE, Some(h), None) : h \in VideoHeights}
      \cup {Fmt(FALSE, TRUE, None, Some(r)) : r \in AudioRates}

VideoOnly(f) == f.vcodec /\ ~f.acodec
AudioOnly(f) == f.acodec /\ ~f.vcodec
Combined(f) == f.vcodec /\ f.acodec

\* yt-dlp's order of preference: video before audio, then resolution, then bitrate
Rank(f) == IF f.vcodec THEN 10000 + Val(f.height) ELSE Val(f.abr)
Best(fs) == CHOOSE f \in fs : \A g \in fs : Rank(g) <= Rank(f)

IncompleteFormats(fs) == (\A f \in fs : VideoOnly(f)) \/ (\A f \in fs : AudioOnly(f))

HeightFilter(fs, maxh) ==
    IF maxh = None THEN fs
    ELSE {f \in fs : f.height # None /\ Val(f.height) <= Val(maxh)}

\* the formats one part of a selector picks: at most one
SelectPart(part, fs) ==
    LET kept == HeightFilter(fs, part.maxh)
        typed == CASE part.what = "bestvideo" -> {f \in kept : VideoOnly(f)}
                   [] part.what = "bestaudio" -> {f \in kept : AudioOnly(f)}
                   [] part.what = "best" -> {f \in kept : Combined(f)}
        matches == IF typed = {} /\ part.what = "best" /\ IncompleteFormats(fs)
                   THEN kept ELSE typed
    IN IF matches = {} THEN None ELSE Some(Best(matches))

\* the formats one alternative picks: empty when a part of it picks nothing
SelectAlt(parts, fs) ==
    IF \E i \in 1..Len(parts) : SelectPart(parts[i], fs) = None THEN {}
    ELSE {Val(SelectPart(parts[i], fs)) : i \in 1..Len(parts)}

\* the first alternative that picks something; alt = 0 when none does
\* (yt-dlp raises "Requested format is not available")
SelectFormats(sel, fs) ==
    LET ok == {i \in 1..Len(sel) : SelectAlt(sel[i], fs) # {}}
    IN IF ok = {} THEN [alt |-> 0, picked |-> {}]
       ELSE LET i == CHOOSE i \in ok : \A k \in ok : i <= k
            IN [alt |-> i, picked |-> SelectAlt(sel[i], fs)]

QualityHints == {"best", "1080p", "720p", "480p", "360p", "audio", "2160p", "720"}
NotSelected == [alt |-> 0 - 1, picked |-> {}]

InitFormat ==
    /\ hint \in QualityHints
    /\ formats \in SUBSET FormatUniverse
    /\ selected = NotSelected
    /\ kind = "remote"
    /\ pc = "dl_start"
    /\ exc = "None"
    /\ now = StartTime
    /\ tempExists = TRUE
    /\ destroyCount = 0
    /\ createCount = 1
    /\ last_update = 0
    /\ total_size = None
    /\ download_progress =
         [downloaded |-> 0, total |-> 0, speed |-> None, quality |-> None]
    /\ worker = "idle"
    /\ mon = "none"
    /\ mon_wake = 0
    /\ mon_msg = NoMsg
    /\ up_msg = NoMsg
    /\ file_size = 0
    /\ response = None
    /\ drive_link = None
    /\ sink = "video_found"
    /\ outcome = "none"
    /\ escaped = FALSE
    /\ lastEmitAt = None
    /\ uploadSeen = FALSE
    /\ nEmit = 0
    /\ suppressed = FALSE
    /\ uploaded = 0
    /\ nRecord = 0
    /\ nChunk = 0
    /\ AuxIdle

\* download_video: format_string = self._get_format_string(self.quality_preference),
\* then yt-dlp resolves it against the formats of the video
ResolveFormat ==
    /\ selected = NotSelected
    /\ selected' = SelectFormats(ParseSelector(get_format_string(hint)), formats)
    /\ UNCHANGED <<hint, formats, pipeVars, auxVars>>

NextFormat == ResolveFormat

SpecFormat == InitFormat /\ [][NextFormat]_vars

(***************************************************************************)
(* parse_quality_command, is_youtube_url and the head of                   *)
(* handle_youtube_url.  A text is the sequence of its whitespace-separated *)
(* words; the regular expressions are read word by word: "/yt\s+" is the   *)
(* word "/yt" followed by more words, "(.+)" is the rest of the text, and  *)
(* re.match anchors a pattern at the start of the string only.             *)
(***************************************************************************)
YoutubeUrl == "https://youtu.be/abc456"
OtherUrl == "https://example.com/v"
Words == {"/yt", "/ytaudio", "best", "1080p", "720P", "720", "2160p",
          YoutubeUrl, OtherUrl}
MaxWords == 3
Texts == UNION {[1..n -> Words] : n \in 1..MaxWords}

\* str.lower()
Lower(w) == IF w = "720P" THEN "720p" ELSE w

\* the words (1080p?|720p?|480p?|360p?|best) matches, ignoring case
QualityWords == {"1080p", "1080", "720p", "720", "480p", "480", "360p", "360", "best"}

Rest(t, i) == SubSeq(t, i, Len(t))

\* re.match of one of youtube_patterns: the string starts with a YouTube url
is_youtube_url(u) == Len(u) >= 1 /\ u[1] = YoutubeUrl

\* parse_quality_command: the three patterns in order
parse_quality_command(t) ==
    IF Len(t) >= 3 /\ t[1] = "/yt" /\ Lower(t[2]) \in QualityWords
    THEN [quality |-> Some(Lower(t[2])), url |-> Rest(t, 3)]
    ELSE IF Len(t) >= 2 /\ t[1] = "/ytaudio"
    THEN [quality |-> Some("audio"), url |-> Rest(t, 2)]
    ELSE IF Len(t) >= 2 /\ t[1] = "/yt"
    THEN [quality |-> Some("best"), url |-> Rest(t, 2)]
    ELSE [quality |-> None, url |-> <<>>]

\* handle_youtube_url up to the validation: the quality and url it goes on with
resolve_request(t) ==
    LET p == parse_quality_command(t)
    IN IF p.quality = None /\ is_youtube_url(t)
       THEN [quality |-> Some("best"), url |-> t]
       ELSE p

\* if not quality or not is_youtube_url(url)
invalid_request(r) == r.quality = None \/ ~is_youtube_url(r.url)

InitCommand ==
    /\ text \in Texts
    /\ cmd_quality = None
    /\ cmd_url = <<>>
    /\ dispatch = "received"
    /\ hint = "best"
    /\ formats = FormatUniverse
    /\ selected = NotSelected
    /\ kind = "remote"
    /\ pc = "parse"
    /\ exc = "None"
    /\ now = StartTime
    /\ tempExists = FALSE
    /\ destroyCount = 0
    /\ createCount = 0
    /\ last_update = 0
    /\ total_size = None
    /\ download_progress =
         [downloaded |-> 0, total |-> 0, speed |-> None, quality |-> None]
    /\ worker = "idle"
    /\ mon = "none"
    /\ mon_wake = 0
    /\ mon_msg = NoMsg
    /\ up_msg = NoMsg
    /\ file_size = 0
    /\ response = None
    /\ drive_link = None
    /\ sink = "none"
    /\ outcome = "none"
    /\ escaped = FALSE
    /\ lastEmitAt = None
    /\ uploadSeen = FALSE
    /\ nEmit = 0
    /\ suppressed = FALSE
    /\ uploaded = 0
    /\ nRecord = 0
    /\ nChunk = 0
    /\ StageIdle
    /\ LockIdle
    /\ LoopIdle

\* handle_youtube_url, lines 498-519: parse, validate, and either reply
\* "Invalid URL or Command" (a reply outside the try, which may raise) and
\* return, or go on with the request
HandleText ==
    /\ dispatch = "received"
    /\ LET r == resolve_request(text)
       IN /\ cmd_quality' = r.quality
          /\ cmd_url' = r.url
          /\ IF invalid_request(r)
             THEN /\ dispatch' = "invalid"
                  /\ pc' = "done"
                  /\ \E o \in SendOutcomes :
                       IF o = "sent"
                       THEN sink' = "invalid_command" /\ UNCHANGED <<exc, escaped>>
                       ELSE exc' = "SendError" /\ escaped' = TRUE /\ UNCHANGED sink
                  /\ UNCHANGED hint
             ELSE /\ dispatch' = "accepted"
                  /\ hint' = Val(r.quality)
                  /\ pc' = "reply"
                  /\ UNCHANGED <<sink, exc, escaped>>
    /\ UNCHANGED <<text, formats, selected, kind, now, dirVars, trackerVars,
                   worker, monVars, upVars, outcome, stageVars, lockVars,
                   loopVars>>

\* the accepted request reaches download_video, which resolves its selector
DownloadWithHint ==
    /\ dispatch = "accepted"
    /\ ResolveFormat

NextCommand == HandleText \/ DownloadWithHint

SpecCommand == InitCommand /\ [][NextCommand]_vars

(***************************************************************************)
(* Staging: the file handle_file picks from what download_media returned   *)
(* (lines 592-600) and the file download_video finds in the output         *)
(* directory (lines 385-389).  os.listdir returns the names of a directory *)
(* in arbitrary order: every order of the same contents is a listing.      *)
(***************************************************************************)
MaxFiles == 3       \* files in the directory download_media returned
MaxListed == 2      \* files in the output directory of yt-dlp

FileSizes == {5, 10, 999}
NameOf == <<"a", "b", "c", "d">>
DirNames == {NameOf[i] : i \in 1..MaxFiles}

\* the files yt-dlp may leave, named by their extension
ContainerExtensions == {"mp4", "mkv", "webm", "avi"}
AudioExtensions == {"m4a", "opus"}
Extensions == ContainerExtensions \cup AudioExtensions \cup {"part"}

Range(f) == {f[i] : i \in DOMAIN f}
OrdersOf(names) ==
    {l \in [1..Cardinality(names) -> names] : Range(l) = names}

\* max(files, key=os.path.getsize): the first file of the largest size
max_by_size(files, sizes) ==
    files[CHOOSE i \in 1..Len(files) :
            /\ \A j \in 1..Len(files) : sizes[files[j]] <= sizes[files[i]]
            /\ \A j \in 1..(i - 1) : sizes[files[j]] < sizes[files[i]]]

\* file.endswith(('.mp4', '.mkv', '.webm', '.avi'))
is_video_file(name) == name \in ContainerExtensions

\* for file in os.listdir(output_dir): if file.endswith(...): return it
find_downloaded(files) ==
    LET hits == {i \in 1..Len(files) : is_video_file(files[i])}
    IN IF hits = {} THEN None
       ELSE Some(files[CHOOSE i \in hits : \A k \in hits : i <= k])

\* the request as it stands when its acquisition has produced its files
FreshTransfer ==
    /\ exc = "None"
    /\ now = StartTime
    /\ tempExists = TRUE
    /\ destroyCount = 0
    /\ createCount = 1
    /\ last_update = 0
    /\ total_size = None
    /\ download_progress =
         [downloaded |-> 0, total |-> 0, speed |-> None, quality |-> None]
    /\ mon_wake = 0
    /\ mon_msg = NoMsg
    /\ up_msg = NoMsg
    /\ file_size = 0
    /\ response = None
    /\ drive_link = None
    /\ outcome = "none"
    /\ escaped = FALSE
    /\ lastEmitAt = None
    /\ uploadSeen = FALSE
    /\ nEmit = 0
    /\ suppressed = FALSE
    /\ uploaded = 0
    /\ nRecord = 0
    /\ nChunk = 0

InitStage ==
    /\ FreshTransfer
    /\ CmdIdle
    /\ LockIdle
    /\ LoopIdle
    /\ formats = {}
    /\ selected = [alt |-> 0, picked |-> {}]
    /\ local_path = None
    /\ \/ /\ kind = "direct"
          /\ pc = "download_media"
          /\ sink = "downloading_file"
          /\ hint = "best"
          /\ worker = "idle"
          /\ mon = "none"
          /\ \E names \in SUBSET DirNames :
               /\ dir_sizes \in [names -> FileSizes]
               /\ listing \in OrdersOf(names)
          /\ isdir \in (IF Len(listing) = 1 THEN BOOLEAN ELSE {TRUE})
       \/ /\ kind = "remote"
          /\ pc = "dl_find"
          /\ sink = "video_found"
          /\ hint \in {"best", "audio"}
          /\ worker = "returned"
          /\ mon = "check"
          /\ isdir = TRUE
          /\ \E names \in SUBSET Extensions :
               /\ Cardinality(names) <= MaxListed
               /\ dir_sizes \in [names -> {MaxBytes}]
               /\ listing \in OrdersOf(names)

\* handle_file: local_path = await client.download_media(media, temp_dir);
\* the largest file when it is a directory; file_size and the tracker
StageLargest ==
    /\ kind = "direct"
    /\ pc = "download_media"
    /\ IF isdir /\ listing = <<>>
       THEN /\ exc' = "EmptyDirError"
            /\ pc' = "with_exit"
            /\ UNCHANGED <<local_path, file_size, total_size>>
       ELSE LET path == IF isdir THEN max_by_size(listing, dir_sizes) ELSE listing[1]
            IN /\ local_path' = Some(path)
               /\ file_size' = dir_sizes[path]
               /\ total_size' = Some(dir_sizes[path])
               /\ pc' = "up_start"
               /\ UNCHANGED exc
    /\ UNCHANGED <<kind, now, dirVars, last_update, download_progress, lastEmitAt,
                   uploadSeen, nEmit, suppressed, nRecord, worker, monVars, up_msg,
                   response, drive_link, uploaded, nChunk, sink, outcome, escaped,
                   fmtVars, cmdVars, lockVars, loopVars, listing, dir_sizes, isdir>>

\* download_video: the first listed file with a video extension, or
\* RuntimeError("Downloaded file not found")
FindDownloaded ==
    /\ kind = "remote"
    /\ pc = "dl_find"
    /\ LET found == find_downloaded(listing)
       IN IF found # None
          THEN /\ local_path' = found
               /\ file_size' = dir_sizes[Val(found)]
               /\ UNCHANGED exc
          ELSE /\ exc' = "NotFoundError"
               /\ UNCHANGED <<local_path, file_size>>
    /\ pc' = "dl_finally"
    /\ UNCHANGED <<kind, now, dirVars, trackerVars, worker, monVars, up_msg,
                   response, drive_link, uploaded, nChunk, sink, outcome, escaped,
                   fmtVars, cmdVars, lockVars, loopVars, listing, dir_sizes, isdir>>

NextStage == StageLargest \/ FindDownloaded

SpecStage == InitStage /\ [][NextStage]_vars

(***************************************************************************)
(* The ProgressTracker under its two users: the yt-dlp thread, which calls *)
(* progress_hook -> update_download_sync, and the _monitor_progress task,  *)
(* which calls check_and_update_download.  Each line that takes, uses or   *)
(* releases progress_lock is a step.                                       *)
(***************************************************************************)
TrackerHorizon == 1  \* seconds of the download this specification follows

\* the dicts of this specification: each optional key present or absent
TrackerSpeeds == {None, Some(1)}
TrackerFilenames == {<<>>, <<"video", "720p">>}
TrackerHookDicts ==
    [status : HookStatuses, downloaded_bytes : HookBytes \ {Some(0)},
     total_bytes : HookTotals, total_bytes_estimate : {None},
     speed : TrackerSpeeds, filename : TrackerFilenames]

InitTracker ==
    /\ FreshTransfer
    /\ FmtIdle
    /\ CmdIdle
    /\ StageIdle
    /\ LockIdle
    /\ LoopIdle
    /\ kind = "remote"
    /\ pc = "dl_download"
    /\ sink = "video_found"
    /\ worker = "running"
    /\ mon = "check"

\* the thread: yt-dlp calls progress_hook(d); a dict whose status is not
\* 'downloading' is ignored
HookCall ==
    /\ worker = "running"
    /\ w_pc = "idle"
    /\ nRecord < MaxHooks
    /\ nRecord' = nRecord + 1
    /\ \E d \in TrackerHookDicts :
         IF d.status = "downloading"
         THEN hook' = d /\ w_pc' = "acquire"
         ELSE UNCHANGED <<hook, w_pc>>
    /\ UNCHANGED <<kind, pc, exc, now, dirVars, last_update, total_size,
                   download_progress, lastEmitAt, uploadSeen, nEmit, suppressed,
                   worker, monVars, upVars, sink, outcome, escaped, fmtVars,
                   cmdVars, stageVars, loopVars, lock, cur_time, committed,
                   mon_read>>

\* what a step of update_download_sync leaves alone
RecordFrame ==
    UNCHANGED <<kind, pc, exc, now, dirVars, last_update, total_size, lastEmitAt,
                uploadSeen, nEmit, suppressed, nRecord, worker, monVars, upVars,
                sink, outcome, escaped, fmtVars, cmdVars, stageVars, loopVars, hook,
                cur_time, mon_read>>

\* with self.progress_lock: (entering)
RecordAcquire ==
    /\ w_pc = "acquire"
    /\ lock_is_free(lock)
    /\ lock' = "worker"
    /\ w_pc' = "set_downloaded"
    /\ UNCHANGED download_progress
    /\ UNCHANGED committed
    /\ RecordFrame

\* self.download_progress['downloaded'] = downloaded_bytes
RecordDownloaded ==
    /\ w_pc = "set_downloaded"
    /\ download_progress' = set_downloaded(download_progress, hook_args(hook).downloaded)
    /\ w_pc' = "set_total"
    /\ UNCHANGED lock
    /\ UNCHANGED committed
    /\ RecordFrame

\* if total_bytes: self.download_progress['total'] = total_bytes
RecordTotal ==
    /\ w_pc = "set_total"
    /\ download_progress' = set_total(download_progress, hook_args(hook).total)
    /\ w_pc' = "set_speed"
    /\ UNCHANGED lock
    /\ UNCHANGED committed
    /\ RecordFrame

\* if speed: self.download_progress['speed'] = speed
RecordSpeed ==
    /\ w_pc = "set_speed"
    /\ download_progress' = set_speed(download_progress, hook_args(hook).speed)
    /\ w_pc' = "set_quality"
    /\ UNCHANGED lock
    /\ UNCHANGED committed
    /\ RecordFrame

\* if quality: self.download_progress['quality'] = quality
RecordQuality ==
    /\ w_pc = "set_quality"
    /\ download_progress' = set_quality(download_progress, hook_args(hook).quality)
    /\ w_pc' = "release"
    /\ committed' = download_progress'
    /\ UNCHANGED lock
    /\ RecordFrame

\* leaving the with block of update_download_sync; progress_hook returns
RecordRelease ==
    /\ w_pc = "release"
    /\ lock' = "free"
    /\ w_pc' = "idle"
    /\ hook' = NoHook
    /\ UNCHANGED <<kind, pc, exc, now, dirVars, trackerVars, worker, monVars,
                   upVars, sink, outcome, escaped, fmtVars, cmdVars, stageVars,
                   loopVars, cur_time, committed, mon_read>>

\* time passes while the download runs
TrackerTick == now < StartTime + TrackerHorizon /\ Tick

NextTracker ==
    \/ TrackerTick
    \/ HookCall
    \/ RecordAcquire
    \/ RecordDownloaded
    \/ RecordTotal
    \/ RecordSpeed
    \/ RecordQuality
    \/ RecordRelease
    \/ MonitorCheck
    \/ CheckAcquire
    \/ CheckRead
    \/ MonitorRender
    \/ MonitorSend
    \/ MonitorWake

SpecTracker == InitTracker /\ [][NextTracker]_vars

(***************************************************************************)
(* The event loop.  Every coroutine of the bot (the handlers, their        *)
(* _monitor_progress tasks, the dispatcher) runs on the one thread of the  *)
(* asyncio loop, one step at a time; asyncio.to_thread hands a call to     *)
(* another thread and frees the loop, while a call made directly inside a  *)
(* coroutine, such as request.next_chunk(), keeps the thread until it      *)
(* returns.  A second request arrives while the first is being handled.    *)
(***************************************************************************)
LoopHorizon == 1    \* seconds of the first request this specification follows

InitLoop ==
    /\ FreshTransfer
    /\ FmtIdle
    /\ CmdIdle
    /\ StageIdle
    /\ LockIdle
    /\ LoopIdle
    /\ kind = "remote"
    /\ pc = "dl_download"
    /\ sink = "video_found"
    /\ worker = "running"
    /\ mon = "check"

\* a step of a coroutine needs the loop thread
OnLoop(step) == loop = "free" /\ ~MonitorRendering /\ step

LoopTick == now < StartTime + LoopHorizon /\ Tick

\* status, response = request.next_chunk(): a synchronous HTTP call on the
\* loop thread
chunk_on_loop == "blocked"

ChunkCall ==
    /\ pc = "up_chunk"
    /\ loop = "free"
    /\ loop' = chunk_on_loop
    /\ UNCHANGED <<pipeVars, fmtVars, cmdVars, stageVars, lockVars, pc2, mon2>>

\* next_chunk() returns or raises: the coroutine goes on
ChunkReturn ==
    /\ loop = chunk_on_loop
    /\ UpChunkRaise \/ UpChunkProgress \/ UpChunkFinal

\* the platform delivers a second message to the bot
Arrive2 ==
    /\ pc2 = "none"
    /\ pc2' = "arrived"
    /\ UNCHANGED <<pipeVars, fmtVars, cmdVars, stageVars, lockVars, loop, mon2>>

\* the dispatcher starts the handler of the second message
Dispatch2 ==
    /\ pc2 = "arrived"
    /\ pc2' = "dispatched"
    /\ UNCHANGED <<pipeVars, fmtVars, cmdVars, stageVars, lockVars, loop, mon2>>

\* the second handler reaches download_video: create_task(_monitor_progress())
\* and await asyncio.to_thread(...)
Start2 ==
    /\ pc2 = "dispatched"
    /\ pc2' = "downloading"
    /\ mon2' = "check"
    /\ UNCHANGED <<pipeVars, fmtVars, cmdVars, stageVars, lockVars, loop>>

\* the second monitor: check_and_update_download, then asyncio.sleep(1)
Monitor2Check ==
    /\ mon2 = "check"
    /\ mon2' = "sleep"
    /\ UNCHANGED <<pipeVars, fmtVars, cmdVars, stageVars, lockVars, loop, pc2>>

\* the second monitor: its sleep ends
Monitor2Wake ==
    /\ mon2 = "sleep"
    /\ mon2' = "check"
    /\ UNCHANGED <<pipeVars, fmtVars, cmdVars, stageVars, lockVars, loop, pc2>>

NextLoop ==
    \/ LoopTick
    \/ WorkerHook
    \/ WorkerFinish
    \/ Arrive2
    \/ ChunkCall
    \/ ChunkReturn
    \/ OnLoop(DlJoin)
    \/ OnLoop(DlFind)
    \/ OnLoop(DlFinally)
    \/ OnLoop(MonitorCancelled)
    \/ OnLoop(DlAwait)
    \/ OnLoop(MonitorCheck)
    \/ CheckAcquire
    \/ CheckRead
    \/ MonitorRender
    \/ OnLoop(MonitorSend)
    \/ OnLoop(MonitorWake)
    \/ OnLoop(EditPrepare)
    \/ OnLoop(UpStart)
    \/ OnLoop(UpSend)
    \/ OnLoop(UpReturn)
    \/ OnLoop(Dispatch2)
    \/ OnLoop(Start2)
    \/ OnLoop(Monitor2Check)
    \/ OnLoop(Monitor2Wake)

SpecLoop == InitLoop /\ [][NextLoop]_vars

(***************************************************************************)
(* upload_to_drive_with_progress on its own, from its first line, with the *)
(* scheduling it runs under: the event loop resumes a coroutine whose      *)
(* await has completed, and the storage service, asked again and again,    *)
(* at some call answers with the finalization response or with an error.   *)
(***************************************************************************)
\* the tracker as ProgressTracker.__init__ and handle_file leave it: a direct
\* upload starts on a fresh tracker whose total_size is the file size
FreshTracker ==
    /\ last_update = 0
    /\ total_size = Some(file_size)
    /\ download_progress =
         [downloaded |-> 0, total |-> 0, speed |-> None, quality |-> None]
    /\ lastEmitAt = None
    /\ nEmit = 0
    /\ suppressed = FALSE
    /\ nRecord = 0

\* the tracker as download_video leaves it: a remote upload runs on the
\* tracker its download used, with the records of progress_hook, the stamp of
\* the last rendered download snapshot and no total_size
UsedTracker ==
    /\ total_size = None
    /\ last_update \in {0} \cup (StartTime..now)
    /\ lastEmitAt = (IF last_update = 0 THEN None ELSE Some(last_update))
    /\ nEmit \in (IF last_update = 0 THEN {0}
                  ELSE IF last_update - StartTime >= DownloadCooldown THEN {1, 2}
                  ELSE {1})
    /\ suppressed \in (IF last_update # 0 /\ (now > last_update \/ nEmit = 2)
                       THEN BOOLEAN ELSE {FALSE})
    /\ nRecord \in (IF last_update = 0 THEN 0 ELSE 1)..MaxHooks
    /\ download_progress \in
         {progress_hook(dp, d) :
            dp \in [downloaded : 0..MaxBytes, total : {0, MaxBytes},
                    speed : {None}, quality : {None}],
            d \in HookDicts}
    /\ nRecord = 0 => download_progress.downloaded = 0 /\ download_progress.total = 0
    /\ (nRecord = 1 /\ last_update # 0) => download_progress.downloaded # 0

InitUpload ==
    /\ FmtIdle
    /\ AuxIdle
    /\ kind \in {"remote", "direct"}
    /\ pc = "up_start"
    /\ exc = "None"
    /\ now \in StartTime..MaxTime
    /\ tempExists = TRUE
    /\ destroyCount = 0
    /\ createCount = 1
    /\ file_size \in 0..MaxBytes
    /\ IF kind = "direct" THEN FreshTracker ELSE UsedTracker
    /\ worker = (IF kind = "remote" THEN "returned" ELSE "idle")
    /\ mon = (IF kind = "remote" THEN "done" ELSE "none")
    /\ mon_wake = 0
    /\ mon_msg = NoMsg
    /\ up_msg = NoMsg
    /\ response = None
    /\ drive_link = None
    /\ sink = (IF kind = "remote" THEN "preparing" ELSE "downloading_file")
    /\ outcome = "none"
    /\ escaped = FALSE
    /\ uploadSeen = FALSE
    /\ uploaded = 0
    /\ nChunk = 0

\* the handlers enter upload_to_drive_with_progress in these tracker states
\* only (an invariant of Spec)
UploadEntered ==
    pc = "up_start" => (IF kind = "direct" THEN FreshTracker ELSE UsedTracker)

\* time passes while the upload runs
UploadTick == pc # "with_exit" /\ Tick

NextUpload ==
    \/ UploadTick
    \/ UpStart
    \/ UpChunkRaise
    \/ UpChunkProgress
    \/ UpSend
    \/ UpChunkFinal
    \/ UpReturn

UploadFairness ==
    /\ WF_vars(UpStart)
    /\ WF_vars(UpSend)
    /\ WF_vars(UpReturn)
    /\ SF_vars(UpChunkFinal \/ UpChunkRaise)

SpecUpload == InitUpload /\ [][NextUpload]_vars /\ UploadFairness

(***************************************************************************)
(* The progress text of one transfer: either its download phase, with the  *)
(* hook reporting any byte count and any total, or its upload phase with   *)
(* the tracker built on the size of the file.                              *)
(***************************************************************************)
BarTotals == {None} \cup {Some(n) : n \in 1..MaxBytes}
BarHookDicts ==
    [status : {"downloading"}, downloaded_bytes : HookBytes,
     total_bytes : BarTotals, total_bytes_estimate : BarTotals,
     speed : HookSpeeds, filename : HookFilenames]

InitBar ==
    /\ FmtIdle
    /\ AuxIdle
    /\ exc = "None"
    /\ now = StartTime
    /\ tempExists = TRUE
    /\ destroyCount = 0
    /\ createCount = 1
    /\ last_update = 0
    /\ download_progress =
         [downloaded |-> 0, total |-> 0, speed |-> None, quality |-> None]
    /\ mon_wake = 0
    /\ mon_msg = NoMsg
    /\ up_msg = NoMsg
    /\ response = None
    /\ drive_link = None
    /\ outcome = "none"
    /\ escaped = FALSE
    /\ lastEmitAt = None
    /\ uploadSeen = FALSE
    /\ nEmit = 0
    /\ suppressed = FALSE
    /\ uploaded = 0
    /\ nRecord = 0
    /\ nChunk = 0
    /\ \/ /\ kind = "remote"
          /\ pc = "dl_download"
          /\ sink = "video_found"
          /\ worker = "running"
          /\ mon = "check"
          /\ file_size = 0
          /\ total_size = None
       \/ /\ kind = "direct"
          /\ pc = "up_chunk"
          /\ sink = "downloading_file"
          /\ worker = "idle"
          /\ mon = "none"
          /\ file_size \in 0..MaxBytes
          /\ total_size = Some(file_size)

\* the thread: yt-dlp calls progress_hook(d); a 'downloading' dict reaches
\* update_download_sync and waits for progress_lock
BarHook ==
    /\ worker = "running"
    /\ nRecord < MaxHooks
    /\ nRecord' = nRecord + 1
    /\ \E d \in BarHookDicts :
         /\ d.status = "downloading" => lock_is_free(lock)
         /\ download_progress' = progress_hook(download_progress, d)
    /\ UNCHANGED <<kind, pc, exc, now, dirVars, last_update, total_size,
                   lastEmitAt, uploadSeen, nEmit, suppressed, worker, monVars,
                   upVars, sink, outcome, escaped, fmtVars, auxVars>>

NextBar ==
    \/ Tick
    \/ BarHook
    \/ MonitorCheck
    \/ CheckAcquire
    \/ CheckRead
    \/ MonitorRender
    \/ MonitorSend
    \/ MonitorWake
    \/ UpChunkProgress
    \/ UpSend

SpecBar == InitBar /\ [][NextBar]_vars

(***************************************************************************)
(* Properties.                                                             *)
(***************************************************************************)
Finished == pc = "done"

\* C1: when the handler finishes, the staged temporary directory no longer
\* exists, and it was removed exactly as many times as it was created (once
\* for a request whose directory was created), on the success path and on
\* every error path.
TempDirDestroyedOnce ==
    /\ createCount <= 1
    /\ destroyCount <= createCount
    /\ Finished => (~tempExists /\ destroyCount = createCount)
    /\ pc \in {"edit_success", "except"} => (~tempExists /\ destroyCount = createCount)

\* C1 witness: a request that failed in the upload and whose directory was removed
TempDirDestroyedOnError ==
    Finished /\ exc = "ChunkError" /\ createCount = 1 /\ destroyCount = 1 /\ ~tempExists

\* what one emit attempt must do, given the cooldown of the method that makes
\* it, whether it had nonzero data and whether it rendered a snapshot
EmitRule(window, nonzero, rendered) ==
    /\ (lastEmitAt # None /\ now - Val(lastEmitAt) < window) => ~rendered
    /\ ((lastEmitAt = None \/ now - Val(lastEmitAt) >= window) /\ nonzero) => rendered

\* C2: an emit attempt made less than its cooldown after the last emission
\* renders nothing (so two attempts within the cooldown of each other render
\* at most one snapshot), and an attempt made once the cooldown has elapsed,
\* with nonzero data, renders exactly one snapshot.
RateLimitedEmission ==
    [][ /\ MonitorCheck =>
             /\ nEmit' = nEmit
             /\ (mon' = "acquire") <=>
                  (lastEmitAt = None \/ now - Val(lastEmitAt) >= DownloadCooldown)
        /\ (CheckAcquire \/ CheckRead) => nEmit' = nEmit
        /\ MonitorRender =>
             /\ (lastEmitAt = None \/ cur_time - Val(lastEmitAt) >= DownloadCooldown)
             /\ IF mon_read.downloaded # 0
                THEN mon' = "sending" /\ nEmit' = nEmit + 1
                ELSE mon' = "sleep" /\ nEmit' = nEmit
        /\ UpChunkProgress =>
             EmitRule(UploadCooldown, uploaded' # 0,
                      pc' = "up_sending" /\ nEmit' = nEmit + 1) ]_vars

\* C2 witness: an attempt with data was held back by the cooldown and two
\* snapshots were rendered, the second after the cooldown
HeldBackThenEmitted == suppressed /\ nEmit >= 2

\* C3: every rendered progress snapshot, of the download and of the upload
\* phase, carries a transferred byte count greater than 0.
NoZeroByteEmission ==
    /\ mon_msg.type = "download" => mon_msg.bytes > 0
    /\ up_msg.type = "upload" => up_msg.bytes > 0

\* C4: the recorded bytes-transferred value of the download phase never
\* decreases, whatever counts the progress hook reports.
DownloadedNonDecreasing ==
    [][download_progress'.downloaded >= download_progress.downloaded]_vars

\* C5: once an upload-phase update has been made, no download-phase update is
\* recorded (progress_hook) or emitted (check_and_update_download and its
\* send) any more.
PhaseNeverGoesBack ==
    [][uploadSeen => ~(WorkerHook \/ MonitorCheck \/ CheckAcquire \/ CheckRead
                        \/ MonitorRender \/ MonitorSend)]_vars

\* C5 witness: a remote transfer that recorded and emitted download progress
\* and is now in its upload phase
UploadAfterDownload ==
    /\ kind = "remote" /\ uploadSeen /\ nRecord > 0 /\ nEmit > 0
    /\ download_progress.downloaded > 0 /\ mon = "done"

\* C6: a failed send to the progress sink never aborts the transfer: a
\* request that entered the pipeline and ended without a link never ended
\* because a send raised.
SinkFailureNeverAborts ==
    (pc \in {"with_exit", "except", "done"} /\ createCount = 1 /\ drive_link = None)
        => exc # "SendError"

\* C7: an error caught at the handler boundary is reported as a failure
\* result and no exception leaves handle_youtube_url or handle_file.
NoExceptionEscapes == outcome = "failure" => ~escaped

NoLink(resp) == "webViewLink" \notin DOMAIN resp \/ resp["webViewLink"] = ""

\* C8: when the finalization response carries no link (absent or empty),
\* upload_to_drive_with_progress raises and returns no link.
MissingLinkRaises ==
    (response # None /\ pc \in {"with_exit", "edit_success", "except", "done"}
       /\ NoLink(Val(response)))
        => (exc = "KeyError" /\ drive_link = None)

StageFailed == exc \in {"ChunkError", "ExtractError", "DownloadError"}
StageAttempt ==
    \/ GetVideoInfo \/ DlExtract \/ WorkerHook \/ DownloadMedia
    \/ UpChunkRaise \/ UpChunkProgress \/ UpChunkFinal

\* C9: after a chunk upload, an extraction or a download has failed, the
\* handler is unwinding, no further extraction, download or chunk attempt is
\* made, and the request ends in the failed outcome.
NoAutomaticRetry ==
    /\ [](StageFailed => pc \in {"dl_finally", "dl_await", "with_exit", "except",
                                  "done"})
    /\ [][StageFailed => ~StageAttempt]_vars
    /\ [](Finished /\ StageFailed => outcome = "failure")

\* C9 witness: the second chunk failed and the request ended as a failure
SecondChunkFailed ==
    Finished /\ exc = "ChunkError" /\ nChunk = 2 /\ outcome = "failure"

NamedHints == {"1080p", "720p", "480p", "360p"}
HintHeight(h) ==
    CASE h = "1080p" -> 1080 [] h = "720p" -> 720 [] h = "480p" -> 480
      [] h = "360p" -> 360
SelectedVideo == {f \in selected.picked : f.vcodec}
Resolved == selected # NotSelected

\* a capped alternative of the selector can match: a video-only format of
\* height <= cap with an audio-only format to merge, or a format of height
\* <= cap that `best` accepts
CappedAvailable(cap) ==
    \/ (\E f \in formats : VideoOnly(f) /\ Val(f.height) <= cap)
         /\ (\E a \in formats : AudioOnly(a))
    \/ \E f \in formats : Combined(f) /\ Val(f.height) <= cap
    \/ IncompleteFormats(formats)
         /\ \E f \in formats : VideoOnly(f) /\ Val(f.height) <= cap

\* C10 as claimed: for a named hint h the selector only ever selects a video
\* stream of height at most h, whatever formats are available.
SelectedHeightAtMostHint ==
    (Resolved /\ hint \in NamedHints)
        => \A f \in SelectedVideo : Val(f.height) <= HintHeight(hint)

\* C10 as amended: for a named hint h the selector selects a video stream of
\* height at most h whenever a capped alternative can match; a taller stream
\* is selected only by the final alternative `best`, when none can.
SelectedHeightAtMostHintIfAvailable ==
    (Resolved /\ hint \in NamedHints) =>
        /\ CappedAvailable(HintHeight(hint)) =>
             /\ selected.alt \in {1, 2}
             /\ SelectedVideo # {}
             /\ \A f \in SelectedVideo : Val(f.height) <= HintHeight(hint)
        /\ (\E f \in SelectedVideo : Val(f.height) > HintHeight(hint)) =>
             (selected.alt = 3 /\ ~CappedAvailable(HintHeight(hint)))

\* C10 witness: hint 720p with a 1080 video-only format on offer selects the
\* 720 video-only format merged with audio
CappedBelowTaller ==
    /\ hint = "720p" /\ selected.alt = 1
    /\ \E f \in formats : VideoOnly(f) /\ f.height = Some(1080)
    /\ \E f \in SelectedVideo : f.height = Some(720)

\* the hints a user can write that the table of _get_format_string lacks
TableHints == {"best", "1080p", "720p", "480p", "360p", "audio"}
HintWords == {"best", "1080p", "720P", "720", "2160p"}
UnrecognizedHints == {Lower(w) : w \in HintWords} \ TableHints
CarriesUnrecognizedHint ==
    /\ Len(text) = 3 /\ text[1] = "/yt" /\ text[2] \in HintWords
    /\ Lower(text[2]) \in UnrecognizedHints
    /\ is_youtube_url(Rest(text, 3))

\* C11: every hint outside the table resolves to the selector of "best", and
\* a request "/yt <hint> <YouTube url>" carrying such a hint is accepted and
\* goes on to the download with that selector instead of being answered with
\* an error.
UnrecognizedHintDownloadsAsBest ==
    /\ \A h \in UnrecognizedHints : get_format_string(h) = get_format_string("best")
    /\ (dispatch # "received" /\ CarriesUnrecognizedHint) =>
          /\ dispatch = "accepted"
          /\ get_format_string(hint) = get_format_string("best")

Acquired == pc \notin {"download_media", "dl_find"}
LargestSize == CHOOSE z \in Range(dir_sizes) : \A y \in Range(dir_sizes) : y <= z

\* C12: when download_media returns a directory, the staged file is the file
\* of the largest size in it, the same file whatever order the directory is
\* listed in (also when two files tie for the largest size), and an empty
\* directory makes the acquisition fail.
LargestFileStagedWhateverOrder ==
    (kind = "direct" /\ isdir /\ Acquired) =>
        IF listing = <<>> THEN exc # "None" /\ local_path = None
        ELSE /\ local_path # None
             /\ dir_sizes[Val(local_path)] = LargestSize
             /\ \A l \in OrdersOf(DOMAIN dir_sizes) :
                  max_by_size(l, dir_sizes) = Val(local_path)

\* C13: for hint audio, the acquisition succeeds with a staged file whenever
\* the download left a file whose extension is an audio or a container format.
AudioDownloadStaged ==
    (kind = "remote" /\ hint = "audio" /\ Acquired
       /\ \E i \in 1..Len(listing) :
            listing[i] \in AudioExtensions \cup ContainerExtensions)
        => (exc = "None" /\ local_path # None)

\* C14: in a direct transfer the byte counts of the platform's download are
\* forwarded to the tracker's record operation: once a file of size S has
\* been acquired and the upload phase is running, the tracker has recorded
\* (downloaded = S, total = S).
DirectAcquisitionRecorded ==
    (kind = "direct" /\ pc \in {"up_start", "up_chunk", "up_sending", "up_return"})
        => /\ download_progress.downloaded = file_size
           /\ download_progress.total = file_size

AfterDownloadVideo ==
    {"edit_prepare", "up_start", "up_chunk", "up_sending", "up_return",
     "with_exit", "edit_success", "except", "done"}

\* C15: on every exit of download_video, by return or by exception, the
\* _monitor_progress task has been cancelled and awaited: in every state after
\* the exit the task has terminated with no send pending, and it makes no
\* check, send or wake-up any more.
MonitorJoinedOnEveryExit ==
    /\ [](pc \in AfterDownloadVideo => (mon \in {"none", "done"} /\ mon_msg = NoMsg))
    /\ [](pc \in {"edit_prepare", "up_start", "up_chunk", "up_sending", "up_return"}
            /\ kind = "remote" => mon = "done")
    /\ [][DlFinally => mon' = "cancelled"]_vars
    /\ [][DlAwait => mon = "done"]_vars
    /\ [][(pc \in AfterDownloadVideo) =>
            ~(MonitorCheck \/ CheckAcquire \/ CheckRead \/ MonitorRender
                \/ MonitorSend \/ MonitorWake)]_vars

\* C15 witness: the download raised after the task had rendered a snapshot,
\* and the task has terminated when the handler leaves the with block
MonitorJoinedOnRaise ==
    pc = "with_exit" /\ exc = "DownloadError" /\ mon = "done" /\ nEmit >= 1

\* C16: record merges a partial update: a progress update that does not
\* supply the bytes, the total, the speed or a quality leaves the recorded
\* value of that field as it was.
RecordKeepsFieldsNotSupplied ==
    /\ [][(RecordDownloaded /\ hook.downloaded_bytes = None) =>
            download_progress'.downloaded = download_progress.downloaded]_vars
    /\ [][(RecordTotal /\ hook.total_bytes = None /\ hook.total_bytes_estimate = None)
            => download_progress'.total = download_progress.total]_vars
    /\ [][(RecordSpeed /\ hook.speed = None) =>
            download_progress'.speed = download_progress.speed]_vars
    /\ [][(RecordQuality /\ extract_quality_from_filename(hook.filename) = None) =>
            download_progress'.quality = download_progress.quality]_vars

\* C19: progress_lock is never held while a snapshot is being sent, so a
\* record call that wants the lock while an emission is in flight finds it
\* free of the emitter and proceeds.
LockNeverHeldWhileSending ==
    /\ mon = "sending" => lock # "monitor"
    /\ (mon = "sending" /\ w_pc = "acquire") => lock = "free"

\* C19 witness: while an emission is in flight, the worker has taken the lock
\* and written the fields of a record call
RecordDuringSend ==
    mon = "sending" /\ lock = "worker" /\ w_pc = "release" /\ nRecord = 2

\* the state of the request's state machine
Phase ==
    CASE pc = "done" /\ outcome = "link" -> "Completed"
      [] pc = "done" /\ outcome # "link" -> "Failed"
      [] pc # "done" /\ exc # "None" -> "Failing"
      [] pc \in {"reply", "mktemp"} /\ exc = "None" -> "Created"
      [] pc \in {"get_info", "edit_found", "dl_start", "dl_extract", "dl_download",
                 "dl_find", "dl_finally", "dl_await", "download_media"}
           /\ exc = "None"
           -> "Acquiring"
      [] pc \in {"edit_prepare", "up_start"} /\ exc = "None" -> "Staged"
      [] pc \in {"up_chunk", "up_sending", "up_return", "with_exit", "edit_success"}
           /\ exc = "None" -> "Uploading"
PhaseRank(p) ==
    CASE p = "Created" -> 1 [] p = "Acquiring" -> 2 [] p = "Staged" -> 3
      [] p = "Uploading" -> 4 [] p = "Completed" -> 5 [] OTHER -> 9
UploadStep == UpStart \/ UpChunkRaise \/ UpChunkProgress \/ UpSend \/ UpChunkFinal
AcquisitionSucceeded ==
    /\ exc = "None"
    /\ kind = "remote" => (worker = "returned" /\ mon = "done")

\* C17: a request goes through Created, Acquiring, Staged, Uploading and
\* Completed one after the other, or leaves a non-terminal state for Failed;
\* every step of the upload is made with the acquisition finished without an
\* error and the staged directory in place; the success result is emitted
\* only after the finalization response and its link were received; nothing
\* changes after Completed or Failed.
RequestFollowsStateMachine ==
    /\ [][\/ PhaseRank(Phase') = PhaseRank(Phase)
          \/ PhaseRank(Phase') = PhaseRank(Phase) + 1
          \/ (Phase \notin {"Completed", "Failed"} /\ Phase' \in {"Failing", "Failed"})]_vars
    /\ [][Phase = "Failing" => Phase' \in {"Failing", "Failed"}]_vars
    /\ [][UploadStep => (AcquisitionSucceeded /\ tempExists)]_vars
    /\ [](outcome = "link" => (response # None /\ drive_link # None /\ sink = "success"))
    /\ [][(Phase \in {"Completed", "Failed"}) => UNCHANGED vars]_vars

\* C17 witness: a remote request that went through every state to Completed
CompletedAfterEveryPhase ==
    /\ kind = "remote" /\ Phase = "Completed" /\ nRecord >= 1 /\ nChunk >= 2
    /\ drive_link # None

\* the step that delivers the terminal result of a request to the sink
ResultEmitted ==
    \/ EditSuccess /\ outcome' = "link" /\ sink' = "success"
    \/ Except /\ ~escaped' /\ sink' = "error"

\* C18 as claimed: the terminal result is emitted first and the staging
\* directory is destroyed after it: when the result is emitted, the directory
\* the request created still exists.
ResultEmittedBeforeDestroy ==
    [][(ResultEmitted /\ createCount = 1) => tempExists]_vars

\* C18 as amended: the staging directory is destroyed first and the terminal
\* result is emitted after it: when the result is emitted, the directory the
\* request created has been removed.
ResultEmittedAfterDestroy ==
    [][ResultEmitted => (~tempExists /\ destroyCount = createCount)]_vars

\* C18 witness: the link was emitted for a request whose directory was
\* created and removed
LinkEmittedDirectoryGone ==
    /\ pc = "done" /\ outcome = "link" /\ sink = "success"
    /\ createCount = 1 /\ destroyCount = 1 /\ ~tempExists

\* the second request has something for the loop to run: its handler is to
\* be dispatched or started, or its emission task is waiting for a step
SecondRequestReady ==
    pc2 \in {"arrived", "dispatched"} \/ mon2 \in {"check", "sleep"}

\* C20: the acquisition and the upload of one request never block the
\* dispatching of another: whenever a second request is to be dispatched or
\* its emission task is to take a step, the loop thread is not held by the
\* download or by an upload chunk of the first.
OtherRequestsNeverBlocked ==
    (SecondRequestReady /\ pc \in {"dl_download", "up_chunk"}) => loop = "free"

UploadReturned == pc = "with_exit" /\ exc = "None"

\* C21: when no chunk fails and the storage service at some call reports the
\* object as finalized, the upload loop terminates; it is not left before a
\* finalization response was received; and the link returned is the
\* webViewLink of that response.
UploadLoopTerminatesWithLink ==
    /\ (pc \in {"up_start", "up_chunk", "up_sending"})
          ~> (pc \in {"up_return", "with_exit"})
    /\ (pc = "up_return") ~> (pc = "with_exit")
    /\ [](pc = "with_exit" => (exc = "ChunkError" \/ response # None))
    /\ [][(pc \in {"up_chunk", "up_sending"} /\ pc' \in {"up_return", "with_exit"})
            => (exc' = "ChunkError" \/ (response = None /\ response' # None))]_vars
    /\ [](UploadReturned =>
            /\ response # None
            /\ "webViewLink" \in DOMAIN Val(response)
            /\ drive_link = Some(Val(response)["webViewLink"]))

\* C21 witness: two chunks were reported as progress, the third call returned
\* the finalization response, and its link was returned
LinkReturnedAfterChunks ==
    /\ UploadReturned /\ nChunk = 3
    /\ drive_link = Some("https://drive.google.com/file1")

\* C22: every emitted progress snapshot that shows a bar shows one of exactly
\* 10 segments, of which between 0 and 10 are filled, whatever pair of
\* transferred bytes and total was recorded, a download whose transferred
\* bytes exceed the total included.
BarAlwaysTenSegments ==
    \A msg \in {mon_msg, up_msg} :
        shows_bar(msg) =>
            /\ bar_of(msg).filled + bar_of(msg).empty = 10
            /\ bar_of(msg).filled \in 0..10

\* the four values a download snapshot was rendered from
snapshot_of(msg) ==
    [downloaded |-> msg.bytes, total |-> msg.total,
     speed |-> msg.speed, quality |-> msg.quality]

\* C23: under every interleaving of record calls of the worker thread with
\* checks of the monitor task, the (downloaded, total, speed, quality) values
\* of each emitted download snapshot are the progress state as it stood after
\* a whole record call (or the initial state): the four reads are made
\* while no record call is partly applied, and the snapshot rendered from
\* them carries the values read.
SnapshotNeverTorn ==
    /\ [][CheckRead => mon_read' = committed]_vars
    /\ [][(MonitorRender /\ mon_msg'.type = "download")
             => snapshot_of(mon_msg') = mon_read]_vars
    /\ [](mon = "read" => w_pc \in {"idle", "acquire"})

\* C23 witness: a snapshot read after the first record call is being sent
\* while the second record call has written some of its fields
SnapshotSentDuringRecord ==
    /\ mon = "sending" /\ mon_msg.type = "download"
    /\ w_pc \in {"set_total", "set_speed", "set_quality"}
    /\ nRecord = 2
    /\ snapshot_of(mon_msg) = committed
    /\ download_progress # committed

====
